---- MODULE Spec2Model ----
(***************************************************************************)
(* csprojtool: the relocation engine (MoveCommand::execute and its helpers *)
(* in move_command.rs) and the solution tree builder (create_solution in   *)
(* sln.rs).                                                                *)
(*                                                                         *)
(* Paths.  A path component is a record [stem, ext]: "A.csproj" is         *)
(* [stem |-> "A", ext |-> "csproj"], a name without a dot has ext = "".    *)
(* An absolute path (a canonical PathBuf) is the sequence of its           *)
(* components below "/".  A stored string (an attribute or text value of   *)
(* a document, or a command line argument) is a record                     *)
(* [rooted, comps, trail]: whether it starts with a separator, its         *)
(* components, and whether it ends with a separator.  Both separators      *)
(* ("/" and "\") are one separator here, as simplify() unifies them.       *)
(***************************************************************************)
EXTENDS Naturals, Sequences, FiniteSets, TLC

\* ------------------------------------------------------------------ bounds
MaxComps == 3
MaxItems == 2
MaxRefs == 2
MaxProjects == 3

\* ------------------------------------------------------------- components
D(s) == [stem |-> s, ext |-> ""]
F(s, e) == [stem |-> s, ext |-> e]
ParentDir == D("..")
CurDir == D(".")
\* Names whose text ends in two dots without being the parent directory.
DotDotNames == {D("x..")}

Repo == <<D("repo")>>

FullName(c) == IF c.ext = "" THEN c.stem ELSE c.stem \o "." \o c.ext
Last(s) == s[Len(s)]
Front(s) == SubSeq(s, 1, Len(s) - 1)
IsPrefix(p, q) == Len(p) <= Len(q) /\ SubSeq(q, 1, Len(p)) = p

\* Path::extension, Path::file_stem, Path::parent, Path::starts_with
Extension(p) == IF p = <<>> \/ Last(p) = ParentDir THEN "" ELSE Last(p).ext
FileStem(p) == Last(p).stem
Parent(p) == Front(p)
StartsWith(p, base) == IsPrefix(base, p)

\* ------------------------------------------------------------ PathResolver
RECURSIVE SimplifyComps(_, _, _)
SimplifyComps(comps, acc, rooted) ==
    IF comps = <<>> THEN acc
    ELSE LET c == Head(comps)
             rest == Tail(comps)
         IN IF c = CurDir THEN SimplifyComps(rest, acc, rooted)
            ELSE IF c = ParentDir
            THEN IF acc # <<>> /\ Last(acc) # ParentDir
                 THEN SimplifyComps(rest, Front(acc), rooted)
                 ELSE IF rooted THEN SimplifyComps(rest, acc, rooted)
                 ELSE SimplifyComps(rest, Append(acc, c), rooted)
            ELSE SimplifyComps(rest, Append(acc, c), rooted)

\* simplify() of an absolute path and of a relative one
SimplifyAbs(p) == SimplifyComps(p, <<>>, TRUE)
SimplifyRel(p) == SimplifyComps(p, <<>>, FALSE)

\* [dir, Path::new(val)].iter().collect::<PathBuf>(): a rooted path replaces dir
Join(dir, val) == IF val.rooted THEN val.comps ELSE dir \o val.comps
\* ... .simplify() of the joined path
Resolve(dir, val) == SimplifyAbs(Join(dir, val))

RECURSIVE CommonLen(_, _)
CommonLen(p, q) ==
    IF p = <<>> \/ q = <<>> \/ Head(p) # Head(q) THEN 0
    ELSE 1 + CommonLen(Tail(p), Tail(q))

Ups(n) == [i \in 1..n |-> ParentDir]

\* relative_path(base, target): both absolute and simple
relative_path(base, target) ==
    LET k == CommonLen(base, target)
    IN Ups(Len(base) - k) \o SubSeq(target, k + 1, Len(target))

\* PathBuf::to_str().to_owned(): the stored string of a relative path
ToStr(rel) == [rooted |-> FALSE, comps |-> rel, trail |-> FALSE]
Str(comps) == ToStr(comps)

\* std::fs::metadata(p) is Ok: p is a file of the disk or a directory holding one
Exists(p, disk) == p = <<>> \/ \E f \in disk : IsPrefix(p, f)

\* --------------------------------------------- move_command.rs, the helpers
EndsWithDotDot(c) == c = ParentDir \/ c \in DotDotNames

looks_like_out_of_tree_relative_path(val) ==
    \E i \in 1..Len(val.comps) :
        /\ EndsWithDotDot(val.comps[i])
        /\ (i < Len(val.comps) \/ val.trail)

\* a mutant: the value is rewritten whether or not anything is there
try_rewrite_relative_path_unchecked(val, old_dir, new_dir, disk) ==
    IF ~looks_like_out_of_tree_relative_path(val)
    THEN [val |-> val, edited |-> FALSE]
    ELSE IF ~val.rooted
         THEN [val |-> ToStr(relative_path(new_dir,
                          SimplifyAbs(old_dir \o SimplifyRel(val.comps)))),
               edited |-> TRUE]
         ELSE [val |-> val, edited |-> TRUE]

\* a mutant: the new value is relative to the old directory
try_rewrite_relative_path_wrong_base(val, old_dir, new_dir, disk) ==
    IF ~looks_like_out_of_tree_relative_path(val)
    THEN [val |-> val, edited |-> FALSE]
    ELSE IF ~val.rooted /\ Exists(SimplifyAbs(old_dir \o SimplifyRel(val.comps)), disk)
         THEN [val |-> ToStr(relative_path(old_dir,
                          SimplifyAbs(old_dir \o SimplifyRel(val.comps)))),
               edited |-> TRUE]
         ELSE [val |-> val, edited |-> TRUE]

try_rewrite_relative_path(val, old_dir, new_dir, disk) ==
    IF ~looks_like_out_of_tree_relative_path(val)
    THEN [val |-> val, edited |-> FALSE]
    ELSE IF ~val.rooted
         THEN LET path == SimplifyRel(val.comps)
                  old_abs_path == SimplifyAbs(old_dir \o path)
              IN IF Exists(old_abs_path, disk)
                 THEN [val |-> ToStr(relative_path(new_dir, old_abs_path)),
                       edited |-> TRUE]
                 ELSE [val |-> val, edited |-> TRUE]
         ELSE [val |-> val, edited |-> TRUE]

\* --------------------------------------- move_command.rs, the documents
\* A project document is [items, groups]: items are the elements below the
\* Project element that carry one path value (an attribute, or the text of the
\* element), each [name, val]; groups are the PropertyGroup children of
\* Project in document order, each the sequence of its identity properties
\* [name, text].  The text of an identity property is a name: it holds no
\* separator, so looks_like_out_of_tree_relative_path never flags it.
Item(name, val) == [name |-> name, val |-> val]
Property(name, text) == [name |-> name, text |-> text]

\* child_elements(group).find(|e| e.name == name).is_some() over the groups,
\* as the fold of lines 312-326 accumulates it
FindProperty(groups, name) ==
    \E g \in 1..Len(groups) : \E i \in 1..Len(groups[g]) : groups[g][i].name = name

\* element is the Project element of doc; get_mut_child("PropertyGroup") is
\* the first group
ensure_root_namespace_and_assembly_name(doc, name) ==
    LET has_root_namespace == FindProperty(doc.groups, "RootNamespace")
        \* line 343 reads root_namespace, not assembly_name
        has_assembly_name == FindProperty(doc.groups, "RootNamespace")
        add1 == IF has_root_namespace THEN <<>>
                ELSE <<Property("RootNamespace", name)>>
        add2 == IF has_assembly_name THEN <<>>
                ELSE <<Property("AssemblyName", name)>>
    IN IF doc.groups = <<>> THEN [doc |-> doc, modified |-> FALSE]
       ELSE [doc |-> [doc EXCEPT !.groups[1] = @ \o add1 \o add2],
             modified |-> ~has_root_namespace \/ ~has_assembly_name]

\* a mutant: the new Include is computed from the moved project's new directory
InboundClosure_from_new_dir(doc, csproj_dir, old_file, new_file) ==
    LET hit(i) == /\ doc.items[i].name = "ProjectReference"
                  /\ Resolve(csproj_dir, doc.items[i].val) = old_file
    IN [doc |-> [doc EXCEPT !.items = [i \in 1..Len(doc.items) |->
                    IF hit(i)
                    THEN Item("ProjectReference",
                              ToStr(relative_path(Parent(new_file), new_file)))
                    ELSE doc.items[i]]],
        edited |-> \E i \in 1..Len(doc.items) : hit(i)]

\* the closure given to transform_xml_file for another project (lines 191-221)
InboundClosure(doc, csproj_dir, old_file, new_file) ==
    LET hit(i) == /\ doc.items[i].name = "ProjectReference"
                  /\ Resolve(csproj_dir, doc.items[i].val) = old_file
    IN [doc |-> [doc EXCEPT !.items = [i \in 1..Len(doc.items) |->
                    IF hit(i)
                    THEN Item("ProjectReference",
                              ToStr(relative_path(csproj_dir, new_file)))
                    ELSE doc.items[i]]],
        edited |-> \E i \in 1..Len(doc.items) : hit(i)]

\* a mutant: the identity properties are named after the new file
OutboundClosure_new_name(doc, old_dir, new_dir, old_file, new_file, disk) ==
    LET e == ensure_root_namespace_and_assembly_name(doc, FileStem(new_file))
        r(i) == try_rewrite_relative_path(e.doc.items[i].val, old_dir, new_dir, disk)
    IN [doc |-> [e.doc EXCEPT !.items = [i \in 1..Len(doc.items) |->
                    Item(doc.items[i].name, r(i).val)]],
        edited |-> e.modified \/ \E i \in 1..Len(doc.items) : r(i).edited]

\* a mutant: the values of ProjectReference elements are passed over
OutboundClosure_skip_references(doc, old_dir, new_dir, old_file, new_file, disk) ==
    LET e == ensure_root_namespace_and_assembly_name(doc, FileStem(old_file))
        r(i) == IF e.doc.items[i].name = "ProjectReference"
                THEN [val |-> e.doc.items[i].val, edited |-> FALSE]
                ELSE try_rewrite_relative_path(e.doc.items[i].val, old_dir, new_dir, disk)
    IN [doc |-> [e.doc EXCEPT !.items = [i \in 1..Len(doc.items) |->
                    Item(doc.items[i].name, r(i).val)]],
        edited |-> e.modified \/ \E i \in 1..Len(doc.items) : r(i).edited]

\* a mutant: the document is handed back for writing whatever was edited
OutboundClosure_always_some(doc, old_dir, new_dir, old_file, new_file, disk) ==
    LET e == ensure_root_namespace_and_assembly_name(doc, FileStem(old_file))
        r(i) == try_rewrite_relative_path(e.doc.items[i].val, old_dir, new_dir, disk)
    IN [doc |-> [e.doc EXCEPT !.items = [i \in 1..Len(doc.items) |->
                    Item(doc.items[i].name, r(i).val)]],
        edited |-> TRUE]

\* the closure given to transform_xml_file for the moved project (lines
\* 234-265): the Project element first, then every other element and text
OutboundClosure(doc, old_dir, new_dir, old_file, new_file, disk) ==
    LET name == FileStem(old_file)
        e == ensure_root_namespace_and_assembly_name(doc, name)
        r(i) == try_rewrite_relative_path(e.doc.items[i].val, old_dir, new_dir, disk)
    IN [doc |-> [e.doc EXCEPT !.items = [i \in 1..Len(doc.items) |->
                    Item(doc.items[i].name, r(i).val)]],
        edited |-> e.modified \/ \E i \in 1..Len(doc.items) : r(i).edited]

\* a mutant: without the extension, the file keeps its original name
ResolveDestination_keep_name(new, cur_dir, old_file) ==
    LET simple == [new EXCEPT !.comps = SimplifyComps(new.comps, <<>>, new.rooted)]
        path == SimplifyAbs(Join(cur_dir, simple))
    IN IF Extension(path) = "csproj"
       THEN [ok |-> TRUE, new_dir |-> Parent(path), new_file |-> path]
       ELSE IF path = <<>>
       THEN [ok |-> FALSE, new_dir |-> <<>>, new_file |-> <<>>]
       ELSE [ok |-> TRUE, new_dir |-> path, new_file |-> Append(path, Last(old_file))]

\* lines 96-112: (new_dir, new_file) from self.new and cur_dir; file_name()
\* of the root is None and unwrap() panics
ResolveDestination(new, cur_dir, old_file) ==
    LET simple == [new EXCEPT !.comps = SimplifyComps(new.comps, <<>>, new.rooted)]
        path == SimplifyAbs(Join(cur_dir, simple))
    IN IF Extension(path) = "csproj"
       THEN [ok |-> TRUE, new_dir |-> Parent(path), new_file |-> path]
       ELSE IF path = <<>>
       THEN [ok |-> FALSE, new_dir |-> <<>>, new_file |-> <<>>]
       ELSE [ok |-> TRUE, new_dir |-> path,
             new_file |-> Append(path, F(FullName(Last(path)), "csproj"))]

\* transform_xml_file(path, f): the file is parsed, f is applied, and the file
\* is written back only if f returns Some(root); r is what the closure came to
transform_xml_file(files, path, r) ==
    IF r.edited THEN [files EXCEPT ![path] = r.doc] ELSE files

\* find_dir_csproj(dir): the project files directly inside dir
find_dir_csproj(dir, disk) ==
    {f \in disk : Parent(f) = dir /\ Extension(f) = "csproj"}

Source(ok, msg, dir, file) == [ok |-> ok, err |-> msg, old_dir |-> dir, old_file |-> file]

\* a mutant: of several projects in the directory the first is taken
ResolveSource_first_of_many(old, disk) ==
    LET csprojs_in_dir == find_dir_csproj(old, disk)
    IN IF ~Exists(old, disk) THEN Source(FALSE, "canonicalize", <<>>, <<>>)
       ELSE IF old \in disk THEN Source(TRUE, "", Parent(old), old)
       ELSE IF csprojs_in_dir = {} THEN Source(FALSE, "no csproj", <<>>, <<>>)
       ELSE Source(TRUE, "", old, CHOOSE f \in csprojs_in_dir : TRUE)

\* lines 65-90: (old_dir, old_file) from old, the canonical form of self.old;
\* canonicalize() fails, and unwrap() panics, when nothing is at old
ResolveSource(old, disk) ==
    LET csprojs_in_dir == find_dir_csproj(old, disk)
    IN IF ~Exists(old, disk) THEN Source(FALSE, "canonicalize", <<>>, <<>>)
       ELSE IF old \in disk THEN Source(TRUE, "", Parent(old), old)
       ELSE IF Cardinality(csprojs_in_dir) > 1
       THEN Source(FALSE, "more than one csproj", <<>>, <<>>)
       ELSE IF csprojs_in_dir = {} THEN Source(FALSE, "no csproj", <<>>, <<>>)
       ELSE Source(TRUE, "", old, CHOOSE f \in csprojs_in_dir : TRUE)

\* find_git_root(dir): the repository holding dir, if any
GitRoot == Repo
HasGitRoot(dir) == IsPrefix(GitRoot, dir)

\* git mv from to, done: every file below from is below to
Moved(f, from, to) ==
    IF IsPrefix(from, f) THEN to \o SubSeq(f, Len(from) + 1, Len(f)) ELSE f

\* a mutant: only projects directly inside the moved directory count
NestedProjects_direct_only(csproj_paths, old_dir, old_file) ==
    {p \in csproj_paths : Parent(p) = old_dir /\ p # old_file}

\* lines 152-155: the discovered projects below old_dir, but for old_file
NestedProjects(csproj_paths, old_dir, old_file) ==
    {p \in csproj_paths : StartsWith(p, old_dir) /\ p # old_file}

\* a mutant: only a file at the destination is a collision
TargetExists_file_only(new_dir, disk) == new_dir \in disk

\* lines 115-118: std::fs::metadata(&new_dir) is Ok
TargetExists(new_dir, disk) == Exists(new_dir, disk)

\* lines 119-120: metadata fails otherwise than NotFound, when a component
\* of new_dir is a file
MetadataError(new_dir, disk) == \E f \in disk : IsPrefix(f, new_dir) /\ f # new_dir

\* what running a git command can come to: done, a non-zero exit status
\* (Command::output() is then Ok all the same), or no process at all
\* (output() is Err and expect() panics)
GitOutcomes == {"ok", "exit_failure", "spawn_error"}

\* ------------------------------------------------ sln.rs, create_solution
\* file::Node: a Directory (its children are the tree's longer keys) or a Project
Directory == [kind |-> "Directory", guid |-> 0]
ProjectLeaf(guid) == [kind |-> "Project", guid |-> guid]

\* The tree rooted at file::Directory::default() is a function from the
\* relative paths of its nodes to the nodes; root itself is the empty path.
EmptyTree == <<>> :> Directory

\* dir.nodes.insert(comp, node): the value bound to comp is replaced, and with
\* it everything the old value owned
Insert(tree, key, node) ==
    LET keep == {k \in DOMAIN tree : ~(IsPrefix(key, k) /\ k # key)} \cup {key}
    IN [k \in keep |-> IF k = key THEN node ELSE tree[k]]

Folded(tree, at) == [ok |-> TRUE, err |-> "", tree |-> tree, at |-> at]
Panic(msg, tree) == [ok |-> FALSE, err |-> msg, tree |-> tree, at |-> <<>>]

\* a mutant: a parent-directory component is skipped
FoldComponent_skip_parent(tree, at, comp, more, guid) ==
    LET key == Append(at, comp)
    IN IF comp = ParentDir THEN Folded(tree, at)
       ELSE IF comp = CurDir THEN Panic("unexpected", tree)
       ELSE IF more
       THEN IF key \notin DOMAIN tree THEN Folded(Insert(tree, key, Directory), key)
            ELSE IF tree[key].kind = "Directory" THEN Folded(tree, key)
            ELSE Panic("project used as directory", tree)
       ELSE Folded(Insert(tree, key, ProjectLeaf(guid)), at)

\* a mutant: a name bound to a project is descended into like a directory
FoldComponent_descend_leaf(tree, at, comp, more, guid) ==
    LET key == Append(at, comp)
    IN IF comp = ParentDir THEN Panic("outside", tree)
       ELSE IF comp = CurDir THEN Panic("unexpected", tree)
       ELSE IF more
       THEN IF key \notin DOMAIN tree THEN Folded(Insert(tree, key, Directory), key)
            ELSE Folded(tree, key)
       ELSE Folded(Insert(tree, key, ProjectLeaf(guid)), at)

\* One turn of the while loop (sln.rs 60-86): comp is components.next(), more
\* is components.peek().is_some(), at is the directory `dir` points to.
FoldComponent(tree, at, comp, more, guid) ==
    LET key == Append(at, comp)
    IN IF comp = ParentDir THEN Panic("outside", tree)
       ELSE IF comp = CurDir THEN Panic("unexpected", tree)
       ELSE IF more
       THEN IF key \notin DOMAIN tree THEN Folded(Insert(tree, key, Directory), key)
            ELSE IF tree[key].kind = "Directory" THEN Folded(tree, key)
            ELSE Panic("project used as directory", tree)
       ELSE Folded(Insert(tree, key, ProjectLeaf(guid)), at)

\* the while loop over the components of one project's relative path
RECURSIVE FoldComponents(_, _, _, _)
FoldComponents(tree, at, comps, guid) ==
    IF comps = <<>> THEN Folded(tree, at)
    ELSE LET r == FoldComponent(tree, at, Head(comps), Tail(comps) # <<>>, guid)
         IN IF r.ok THEN FoldComponents(r.tree, r.at, Tail(comps), guid) ELSE r

\* the body of `for project in projects` (sln.rs 48-87)
FoldProject(tree, sln_dir, project) ==
    FoldComponents(tree, <<>>, relative_path(sln_dir, project.path), project.project_guid)

\* ------------------------------------------------------------------ state
VARIABLES
    \* try_rewrite_relative_path applied to one input
    rwVal, rwOldDir, rwNewDir, rwDisk, rwOut, rwPc,
    \* create_solution: the solution path, the projects iterator (the sequence
    \* and the number of items taken), the tree `root`, and where the call is
    slnPath, slnProjects, slnTaken, slnRoot, slnPc, slnErr,
    \* MoveCommand::execute: the command (self.old, self.new), the process's
    \* current directory, the disk (its files, and the documents of its project
    \* files) now and before the call, the locals of execute, the projects the
    \* for loop has yet to take, the git commands run so far, the files written
    \* and staged, and where the call is
    self_old, self_new, cur_dir, disk, docs, disk0, docs0,
    old_dir, old_file, new_dir, new_file, csproj_paths, todo,
    gitLog, written, staged, pc, err

rwVars == <<rwVal, rwOldDir, rwNewDir, rwDisk, rwOut, rwPc>>
slnVars == <<slnPath, slnProjects, slnTaken, slnRoot, slnPc, slnErr>>
mvArgs == <<self_old, self_new, cur_dir, disk0, docs0>>
mvLocals == <<old_dir, old_file, new_dir, new_file, csproj_paths, todo>>
mvEffects == <<disk, docs, gitLog, written, staged>>
mvVars == <<mvArgs, mvLocals, mvEffects, pc, err>>
vars == <<rwVars, slnVars, mvVars>>

SeqsUpTo(S, n) == UNION {[1..k -> S] : k \in 0..n}

RwIdle ==
    /\ rwVal = Str(<<>>) /\ rwOldDir = <<>> /\ rwNewDir = <<>> /\ rwDisk = {}
    /\ rwOut = [val |-> Str(<<>>), edited |-> FALSE] /\ rwPc = "idle"

SlnIdle ==
    /\ slnPath = <<>> /\ slnProjects = <<>> /\ slnTaken = 0
    /\ slnRoot = EmptyTree /\ slnPc = "idle" /\ slnErr = ""

MvIdle ==
    /\ self_old = Str(<<>>) /\ self_new = Str(<<>>) /\ cur_dir = <<>>
    /\ disk = {} /\ docs = <<>> /\ disk0 = {} /\ docs0 = <<>>
    /\ old_dir = <<>> /\ old_file = <<>> /\ new_dir = <<>> /\ new_file = <<>>
    /\ csproj_paths = {} /\ todo = {} /\ gitLog = <<>>
    /\ written = {} /\ staged = {} /\ pc = "idle" /\ err = ""

\* ------------------------------------- try_rewrite_relative_path on inputs
RwComps == {ParentDir, CurDir, D("A"), D("shared"), D("lib"), D("x..")}
RwValues ==
    {[rooted |-> r, comps |-> c, trail |-> t] :
        r \in BOOLEAN, c \in SeqsUpTo(RwComps, MaxComps) \ {<<>>}, t \in BOOLEAN}
RwOldDirs == {<<D("repo"), D("A")>>, <<D("repo"), D("shared"), D("A")>>}
RwNewDirs == {<<D("repo"), D("B"), D("A")>>, <<D("repo"), D("shared"), D("lib"), D("A")>>,
              <<D("A")>>}
RwFiles == {<<D("repo"), D("shared"), D("lib")>>, <<D("repo"), D("A"), D("x.."), D("lib")>>,
            <<D("repo"), D("lib")>>}

RwInit ==
    /\ rwVal \in RwValues
    /\ rwOldDir \in RwOldDirs
    /\ rwNewDir \in RwNewDirs
    /\ rwDisk \in SUBSET RwFiles
    /\ rwOut = [val |-> rwVal, edited |-> FALSE]
    /\ rwPc = "call"
    /\ SlnIdle
    /\ MvIdle

RwCall ==
    /\ rwPc = "call"
    /\ rwOut' = try_rewrite_relative_path(rwVal, rwOldDir, rwNewDir, rwDisk)
    /\ rwPc' = "returned"
    /\ UNCHANGED <<rwVal, rwOldDir, rwNewDir, rwDisk, slnVars, mvVars>>

RwNext == RwCall

RwSpec == RwInit /\ [][RwNext]_vars

\* C10: a non-rooted flagged value whose resolution against the old directory
\* exists is replaced by a value that, resolved against the new directory,
\* is the absolute path the old value had against the old directory.
C10_RewriteKeepsTarget ==
    (/\ rwPc = "returned"
     /\ looks_like_out_of_tree_relative_path(rwVal)
     /\ ~rwVal.rooted
     /\ Exists(Resolve(rwOldDir, rwVal), rwDisk))
    => /\ rwOut.edited
       /\ Resolve(rwNewDir, rwOut.val) = Resolve(rwOldDir, rwVal)

\* the spec's example: /repo/A -> /repo/B/A, target /repo/shared/lib
C10_Witness ==
    /\ rwPc = "returned"
    /\ rwOldDir = <<D("repo"), D("A")>>
    /\ rwNewDir = <<D("repo"), D("B"), D("A")>>
    /\ rwVal = [rooted |-> FALSE, comps |-> <<ParentDir, D("shared"), D("lib")>>,
                trail |-> FALSE]
    /\ Exists(Resolve(rwOldDir, rwVal), rwDisk)
    /\ rwOut.val = Str(<<ParentDir, ParentDir, D("shared"), D("lib")>>)

\* ------------------------------------------------- create_solution on inputs
SlnPaths == {Repo \o <<F("All", "sln")>>, Repo \o <<D("src"), F("All", "sln")>>}
\* the discovered projects: path and project_guid
SlnPool ==
    {[path |-> Repo \o <<D("src"), D("Foo"), F("Foo", "proj")>>, project_guid |-> 1],
     [path |-> Repo \o <<D("src"), D("Foo")>>, project_guid |-> 2],
     [path |-> Repo \o <<D("src"), F("Bar", "proj")>>, project_guid |-> 3],
     [path |-> Repo \o <<D("src"), F("Bar", "proj"), F("Baz", "proj")>>, project_guid |-> 4],
     [path |-> Repo \o <<D("Foo"), F("Foo", "proj")>>, project_guid |-> 5]}

sln_dir == Parent(SimplifyAbs(slnPath))
RelPath(project) == relative_path(sln_dir, project.path)
Range(s) == {s[i] : i \in 1..Len(s)}

SlnInit ==
    /\ slnPath \in SlnPaths
    /\ slnProjects \in SeqsUpTo(SlnPool, MaxProjects)
    /\ slnTaken = 0
    /\ slnRoot = EmptyTree
    /\ slnPc = "folding"
    /\ slnErr = ""
    /\ RwIdle
    /\ MvIdle

\* one iteration of `for project in projects`
SlnFold ==
    /\ slnPc = "folding"
    /\ slnTaken < Len(slnProjects)
    /\ LET r == FoldProject(slnRoot, sln_dir, slnProjects[slnTaken + 1])
       IN /\ slnTaken' = slnTaken + 1
          /\ slnRoot' = r.tree
          /\ slnPc' = IF r.ok THEN "folding" ELSE "panicked"
          /\ slnErr' = r.err
    /\ UNCHANGED <<slnPath, slnProjects, rwVars, mvVars>>

\* file::SolutionFile::new(root)
SlnReturn ==
    /\ slnPc = "folding"
    /\ slnTaken = Len(slnProjects)
    /\ slnPc' = "returned"
    /\ UNCHANGED <<slnPath, slnProjects, slnTaken, slnRoot, slnErr, rwVars, mvVars>>

SlnNext == SlnFold \/ SlnReturn

SlnSpec == SlnInit /\ [][SlnNext]_vars

\* C4: a name bound to a Directory is never replaced by a ProjectLeaf
\* (folding a project onto a Directory's name is fatal instead).
C4_DirectoryNeverReplaced ==
    [][\A k \in DOMAIN slnRoot :
          (slnRoot[k].kind = "Directory" /\ k \in DOMAIN slnRoot')
          => slnRoot'[k].kind = "Directory"]_vars

\* C9: if a project of the input, at any position, has a parent-directory
\* component in its path relative to the solution directory, create_solution
\* never returns a tree.
C9_OutsideIsFatal ==
    /\ (\E j \in 1..Len(slnProjects) : ParentDir \in Range(RelPath(slnProjects[j])))
       => slnPc # "returned"
    /\ (\E j \in 1..slnTaken : ParentDir \in Range(RelPath(slnProjects[j])))
       => slnPc = "panicked"

\* the offending project comes last, after two that folded
C9_Witness ==
    /\ slnPc = "panicked"
    /\ slnErr = "outside"
    /\ slnTaken = 3
    /\ RelPath(slnProjects[3]) = <<ParentDir, D("Foo"), F("Foo", "proj")>>
    /\ \A j \in 1..2 : ParentDir \notin Range(RelPath(slnProjects[j]))

\* ---------------------------------------------- MoveCommand::execute on inputs
\* The disk: the moved project P in /repo/A beside one of its own files, a
\* project Q in /repo/Q, and, each present or not, a project nested below
\* /repo/A, a second project in /repo/A, and a file /repo/shared/lib.
ProjP == Repo \o <<D("A"), F("A", "csproj")>>
ProjQ == Repo \o <<D("Q"), F("Q", "csproj")>>
ProjNested == Repo \o <<D("A"), D("N"), F("N", "csproj")>>
ProjSecond == Repo \o <<D("A"), F("A2", "csproj")>>
FileLib == Repo \o <<D("shared"), D("lib")>>
FileInner == Repo \o <<D("A"), F("main", "cs")>>

Disks == {{ProjP, ProjQ, FileInner} \cup S : S \in SUBSET {ProjNested, ProjSecond, FileLib}}

RECURSIVE Pick(_, _)
Pick(pool, S) ==
    IF S = {} THEN <<>>
    ELSE LET m == CHOOSE x \in S : \A y \in S : x <= y
         IN <<pool[m]>> \o Pick(pool, S \ {m})
\* the sequences of at most n items of pool, in pool's order
SubSeqs(pool, n) ==
    {Pick(pool, S) : S \in {T \in SUBSET (1..Len(pool)) : Cardinality(T) <= n}}

\* what Q's document may hold
RefPool ==
    << Item("ProjectReference", Str(<<ParentDir, D("A"), F("A", "csproj")>>)),
       Item("ProjectReference",
            Str(<<CurDir, ParentDir, D("Q"), ParentDir, D("A"), F("A", "csproj")>>)),
       Item("ProjectReference", Str(<<ParentDir, D("shared"), F("S", "csproj")>>)) >>

\* what P's document may hold
ItemPool ==
    << Item("Content", Str(<<ParentDir, D("shared"), D("lib")>>)),
       Item("ProjectReference", Str(<<ParentDir, D("Q"), F("Q", "csproj")>>)),
       Item("Compile", Str(<<D("src"), F("main", "cs")>>)),
       Item("ProjectReference", Str(<<D("N"), F("N", "csproj")>>)),
       Item("Content", [rooted |-> TRUE, trail |-> FALSE,
                        comps |-> <<D("repo"), D("x"), ParentDir, D("shared"), D("lib")>>]) >>

RN == Property("RootNamespace", "Root")
AN == Property("AssemblyName", "Asm")
GroupsPool ==
    {<<>>, << <<>> >>, << <<RN>> >>, << <<AN>> >>, << <<RN, AN>> >>, << <<>>, <<AN, RN>> >>}

EmptyDoc == [items |-> <<>>, groups |-> <<>>]

SourceArgs == {Str(<<D("A")>>), Str(<<D("A"), F("A", "csproj")>>), Str(<<D("shared")>>)}
DestArgs ==
    {Str(<<D("B"), D("A")>>), Str(<<D("B"), D("C")>>),
     Str(<<D("Q"), D("sub"), ParentDir, F("New", "csproj")>>),
     Str(<<D("B"), F("New", "csproj")>>),
     [rooted |-> TRUE, comps |-> <<ParentDir>>, trail |-> TRUE]}

MvInit ==
    /\ self_old \in SourceArgs
    /\ self_new \in DestArgs
    /\ cur_dir = Repo
    /\ disk \in Disks
    /\ \E q \in SubSeqs(RefPool, MaxRefs), i \in SubSeqs(ItemPool, MaxItems), g \in GroupsPool :
          docs = [f \in {x \in disk : Extension(x) = "csproj"} |->
                    IF f = ProjP THEN [items |-> i, groups |-> g]
                    ELSE IF f = ProjQ THEN [items |-> q, groups |-> << <<RN, AN>> >>]
                    ELSE EmptyDoc]
    /\ disk0 = disk
    /\ docs0 = docs
    /\ old_dir = <<>> /\ old_file = <<>> /\ new_dir = <<>> /\ new_file = <<>>
    /\ csproj_paths = {} /\ todo = {}
    /\ gitLog = <<>> /\ written = {} /\ staged = {}
    /\ pc = "resolve_source" /\ err = ""
    /\ RwIdle
    /\ SlnIdle

Abort(msg) == pc' = "panicked" /\ err' = msg
Git(cmd, from, to, outcome) == [cmd |-> cmd, from |-> from, to |-> to, status |-> outcome]

\* lines 65-90
MvResolveSource ==
    /\ pc = "resolve_source"
    /\ LET r == ResolveSource(Resolve(cur_dir, self_old), disk)
       IN IF r.ok
          THEN old_dir' = r.old_dir /\ old_file' = r.old_file
               /\ pc' = "resolve_dest" /\ UNCHANGED err
          ELSE Abort(r.err) /\ UNCHANGED <<old_dir, old_file>>
    /\ UNCHANGED <<new_dir, new_file, csproj_paths, todo, mvArgs, mvEffects, rwVars, slnVars>>

\* lines 94-112
MvResolveDest ==
    /\ pc = "resolve_dest"
    /\ LET r == ResolveDestination(self_new, cur_dir, old_file)
       IN IF r.ok
          THEN new_dir' = r.new_dir /\ new_file' = r.new_file
               /\ pc' = "check_dest" /\ UNCHANGED err
          ELSE Abort("no file name") /\ UNCHANGED <<new_dir, new_file>>
    /\ UNCHANGED <<old_dir, old_file, csproj_paths, todo, mvArgs, mvEffects, rwVars, slnVars>>

\* lines 114-122
MvCheckDest ==
    /\ pc = "check_dest"
    /\ IF TargetExists(new_dir, disk) THEN Abort("target exists")
       ELSE IF MetadataError(new_dir, disk) THEN Abort("metadata")
       ELSE pc' = "discover" /\ UNCHANGED err
    /\ UNCHANGED <<mvLocals, mvArgs, mvEffects, rwVars, slnVars>>

\* lines 126-149: the walk from the git root, or from cur_dir without one
MvDiscover ==
    /\ pc = "discover"
    /\ LET root == IF HasGitRoot(old_dir) THEN GitRoot ELSE cur_dir
       IN csproj_paths' = {f \in disk : IsPrefix(root, f) /\ Extension(f) = "csproj"}
    /\ todo' = csproj_paths'
    /\ pc' = "nested_guard"
    /\ UNCHANGED <<old_dir, old_file, new_dir, new_file, err, mvArgs, mvEffects, rwVars, slnVars>>

\* lines 151-161
MvNestedGuard ==
    /\ pc = "nested_guard"
    /\ IF NestedProjects(csproj_paths, old_dir, old_file) # {}
       THEN Abort("nested")
       ELSE pc' = "mv_dir" /\ UNCHANGED err
    /\ UNCHANGED <<mvLocals, mvArgs, mvEffects, rwVars, slnVars>>

\* lines 163-167: git mv old_dir new_dir
MvMoveDir ==
    /\ pc = "mv_dir"
    /\ \E outcome \in GitOutcomes :
          /\ outcome = "ok" => ~IsPrefix(old_dir, new_dir)
          /\ gitLog' = Append(gitLog, Git("mv", old_dir, new_dir, outcome))
          /\ IF outcome = "spawn_error"
             THEN Abort("failed to move files") /\ UNCHANGED <<disk, docs>>
             ELSE /\ pc' = "mv_file" /\ UNCHANGED err
                  /\ IF outcome = "ok"
                     THEN /\ disk' = {Moved(f, old_dir, new_dir) : f \in disk}
                          /\ docs' = [g \in {Moved(f, old_dir, new_dir) : f \in DOMAIN docs} |->
                                        docs[CHOOSE f \in DOMAIN docs :
                                                Moved(f, old_dir, new_dir) = g]]
                     ELSE UNCHANGED <<disk, docs>>
    /\ UNCHANGED <<mvLocals, mvArgs, written, staged, rwVars, slnVars>>

\* lines 169-181: git mv of the project file, when it is to change its name
MvMoveFile ==
    /\ pc = "mv_file"
    /\ LET current_path == Append(new_dir, Last(old_file))
       IN IF current_path = new_file
          THEN pc' = "inbound" /\ UNCHANGED <<err, disk, docs, gitLog>>
          ELSE \E outcome \in GitOutcomes :
                /\ outcome = "ok" => current_path \in disk
                /\ gitLog' = Append(gitLog, Git("mv", current_path, new_file, outcome))
                /\ IF outcome = "spawn_error"
                   THEN Abort("failed to move files") /\ UNCHANGED <<disk, docs>>
                   ELSE /\ pc' = "inbound" /\ UNCHANGED err
                        /\ IF outcome = "ok"
                           THEN /\ disk' = (disk \ {current_path}) \cup {new_file}
                                /\ docs' = [g \in (DOMAIN docs \ {current_path}) \cup {new_file} |->
                                              IF g = new_file THEN docs[current_path]
                                              ELSE docs[g]]
                           ELSE UNCHANGED <<disk, docs>>
    /\ UNCHANGED <<mvLocals, mvArgs, written, staged, rwVars, slnVars>>

\* lines 183-230: one turn of the for loop, the projects taken in any order
MvInbound ==
    /\ pc = "inbound"
    /\ \E csproj_path \in todo :
          /\ todo' = todo \ {csproj_path}
          /\ IF csproj_path = old_file
             THEN UNCHANGED <<pc, err, mvEffects>>
             ELSE IF csproj_path \notin DOMAIN docs
             THEN Abort("transform_xml_file") /\ UNCHANGED mvEffects
             ELSE LET r == InboundClosure(docs[csproj_path], Parent(csproj_path),
                                          old_file, new_file)
                  IN IF ~r.edited
                     THEN UNCHANGED <<pc, err, mvEffects>>
                     ELSE \E outcome \in GitOutcomes :
                            /\ docs' = transform_xml_file(docs, csproj_path, r)
                            /\ written' = written \cup {csproj_path}
                            /\ gitLog' = Append(gitLog, Git("add", csproj_path, <<>>, outcome))
                            /\ staged' = IF outcome = "ok" THEN staged \cup {csproj_path}
                                         ELSE staged
                            /\ IF outcome = "spawn_error" THEN Abort("failed to add file")
                               ELSE UNCHANGED <<pc, err>>
                            /\ UNCHANGED disk
    /\ UNCHANGED <<old_dir, old_file, new_dir, new_file, csproj_paths, mvArgs, rwVars, slnVars>>

\* lines 232-266: transform_xml_file(&new_file, ...).unwrap()
MvOutbound ==
    /\ pc = "inbound"
    /\ todo = {}
    /\ IF new_file \notin DOMAIN docs
       THEN Abort("transform_xml_file") /\ UNCHANGED <<docs, written>>
       ELSE LET r == OutboundClosure(docs[new_file], old_dir, new_dir, old_file, new_file, disk)
            IN /\ docs' = transform_xml_file(docs, new_file, r)
               /\ written' = IF r.edited THEN written \cup {new_file} ELSE written
               /\ pc' = IF r.edited THEN "add_moved" ELSE "done"
               /\ UNCHANGED err
    /\ UNCHANGED <<mvLocals, mvArgs, disk, gitLog, staged, rwVars, slnVars>>

\* lines 268-273: git add new_file
MvAddMoved ==
    /\ pc = "add_moved"
    /\ \E outcome \in GitOutcomes :
          /\ gitLog' = Append(gitLog, Git("add", new_file, <<>>, outcome))
          /\ staged' = IF outcome = "ok" THEN staged \cup {new_file} ELSE staged
          /\ IF outcome = "spawn_error" THEN Abort("failed to add file")
             ELSE pc' = "done" /\ UNCHANGED err
    /\ UNCHANGED <<mvLocals, mvArgs, disk, docs, written, rwVars, slnVars>>

Next ==
    \/ MvResolveSource \/ MvResolveDest \/ MvCheckDest \/ MvDiscover \/ MvNestedGuard
    \/ MvMoveDir \/ MvMoveFile \/ MvInbound \/ MvOutbound \/ MvAddMoved

Spec == MvInit /\ [][Next]_vars

\* ------------------------------------------------ MoveCommand::execute, claims
Untouched ==
    /\ gitLog = <<>> /\ written = {} /\ staged = {}
    /\ disk = disk0 /\ docs = docs0

SourceResolved == old_file # <<>>
DestinationResolved == new_file # <<>>
Others == csproj_paths \ {old_file}

\* Q's i-th element was, before the call, a ProjectReference to old_file
ReferencedMoved(q, i) ==
    /\ docs0[q].items[i].name = "ProjectReference"
    /\ Resolve(Parent(q), docs0[q].items[i].val) = old_file

\* C1: after a successful move, every Include of another discovered project
\* that resolved to the old project file resolves, from that project's own
\* directory, to the new project file.
C1_ReferenceIntegrity ==
    pc = "done" =>
        \A q \in Others : \A i \in 1..Len(docs0[q].items) :
            ReferencedMoved(q, i) => Resolve(Parent(q), docs[q].items[i].val) = new_file

\* Q held two references to P, one of them not in simple form, and both changed
C1_Witness ==
    /\ pc = "done"
    /\ ProjQ \in Others
    /\ Len(docs0[ProjQ].items) = 2
    /\ \A i \in 1..2 : ReferencedMoved(ProjQ, i) /\ docs[ProjQ].items[i] # docs0[ProjQ].items[i]
    /\ docs0[ProjQ].items[1] # docs0[ProjQ].items[2]
    /\ Last(new_file) # Last(old_file)

\* C2: when a discovered project other than the moved one lies below the
\* source directory, execute aborts there, and nothing has been moved, written
\* or staged: the disk is as it was before the call.
C2_NestedRejectionAtomic ==
    /\ err = "nested" => pc = "panicked" /\ Untouched
    /\ (/\ \E p \in Others : StartsWith(p, old_dir)
        /\ pc \notin {"discover", "nested_guard"})
       => pc = "panicked" /\ err = "nested"

C2_Witness ==
    /\ pc = "panicked" /\ err = "nested"
    /\ ProjNested \in csproj_paths
    /\ ProjSecond \notin csproj_paths
    /\ \E i \in 1..Len(docs0[ProjQ].items) : ReferencedMoved(ProjQ, i)

\* C3: once a git mv has failed, nothing is written and nothing is staged.
C3_MoveFailureStops ==
    (\E i \in 1..Len(gitLog) : gitLog[i].cmd = "mv" /\ gitLog[i].status # "ok")
    => written = {} /\ staged = {}

HasGroupWithoutIdentity(doc) ==
    /\ doc.groups # <<>>
    /\ ~FindProperty(doc.groups, "RootNamespace")
    /\ ~FindProperty(doc.groups, "AssemblyName")
InFirstGroup(doc, prop) ==
    /\ doc.groups # <<>>
    /\ \E i \in 1..Len(doc.groups[1]) : doc.groups[1][i] = prop

\* C5 as claimed: a moved project that had a property group and neither
\* identity property has both in its first property group, each holding the
\* NEW file's base name.
C5_BackfillNewName ==
    (pc = "done" /\ HasGroupWithoutIdentity(docs0[old_file]))
    => /\ InFirstGroup(docs[new_file], Property("RootNamespace", FileStem(new_file)))
       /\ InFirstGroup(docs[new_file], Property("AssemblyName", FileStem(new_file)))

\* C5 as amended: ... each holding the base name of the project's ORIGINAL
\* file, and the document is written.
C5_BackfillOldName ==
    (pc = "done" /\ HasGroupWithoutIdentity(docs0[old_file]))
    => /\ InFirstGroup(docs[new_file], Property("RootNamespace", FileStem(old_file)))
       /\ InFirstGroup(docs[new_file], Property("AssemblyName", FileStem(old_file)))
       /\ new_file \in written

C5_Witness ==
    /\ pc = "done"
    /\ HasGroupWithoutIdentity(docs0[old_file])
    /\ FileStem(new_file) # FileStem(old_file)
    /\ InFirstGroup(docs[new_file], Property("AssemblyName", "A"))

\* the destination argument joined with the working directory and simplified
DestPath == Resolve(cur_dir, self_new)

\* C6 as claimed: without the project extension the destination is the new
\* directory and the new file keeps the moved project's ORIGINAL file name;
\* with it, the destination is the new file and its parent the new directory.
C6_DestinationKeepsName ==
    DestinationResolved =>
        IF Extension(DestPath) = "csproj"
        THEN new_file = DestPath /\ new_dir = Parent(DestPath)
        ELSE new_dir = DestPath /\ new_file = Append(DestPath, Last(old_file))

\* C6 as amended: without the extension the new file is named after the
\* destination directory (its name followed by ".csproj"), and a destination
\* that is the root of the file system is fatal.
C6_DestinationNamedAfterDir ==
    /\ DestinationResolved =>
          IF Extension(DestPath) = "csproj"
          THEN new_file = DestPath /\ new_dir = Parent(DestPath)
          ELSE /\ new_dir = DestPath
               /\ Parent(new_file) = new_dir
               /\ Last(new_file).ext = "csproj"
               /\ Last(new_file).stem = FullName(Last(new_dir))
    /\ (SourceResolved /\ pc # "resolve_dest" /\ DestPath = <<>>)
       => pc = "panicked" /\ err = "no file name"

C6_Witness ==
    /\ DestinationResolved
    /\ Extension(DestPath) # "csproj"
    /\ new_file = Repo \o <<D("B"), D("C"), F("C", "csproj")>>
    /\ old_file = ProjP

NoFlaggedValue(doc) ==
    \A i \in 1..Len(doc.items) : ~looks_like_out_of_tree_relative_path(doc.items[i].val)
HasBothIdentity(doc) ==
    FindProperty(doc.groups, "RootNamespace") /\ FindProperty(doc.groups, "AssemblyName")

\* C7: a moved project without flagged values and with both identity
\* properties is neither written nor staged: the document at the new place is
\* the document that was at the old place.
C7_NoOpRoundTrip ==
    (/\ pc \in {"add_moved", "done"}
     /\ NoFlaggedValue(docs0[old_file])
     /\ HasBothIdentity(docs0[old_file]))
    => /\ pc = "done"
       /\ new_file \notin written
       /\ new_file \notin staged
       /\ \A i \in 1..Len(gitLog) : gitLog[i].cmd = "add" => gitLog[i].from # new_file
       /\ docs[new_file] = docs0[old_file]

C7_Witness ==
    /\ pc = "done"
    /\ NoFlaggedValue(docs0[old_file])
    /\ HasBothIdentity(docs0[old_file])
    /\ docs0[old_file].items # <<>>
    /\ new_file # old_file
    /\ written # {}

\* C8: when the destination directory exists before the call, execute aborts
\* at the check of the destination: before the discovery of the projects, and
\* with nothing moved, written or staged.
C8_DestinationCollision ==
    (DestinationResolved /\ Exists(new_dir, disk0) /\ pc # "check_dest")
    => /\ pc = "panicked" /\ err = "target exists"
       /\ csproj_paths = {}
       /\ Untouched

C8_Witness ==
    /\ pc = "panicked" /\ err = "target exists"
    /\ new_dir = Repo \o <<D("Q")>>
    /\ new_file = Repo \o <<D("Q"), F("New", "csproj")>>

\* the source argument in canonical form, and what it is before the call
SourcePath == Resolve(cur_dir, self_old)
SourceIsFile == SourcePath \in disk0
SourceIsDir == Exists(SourcePath, disk0) /\ SourcePath \notin disk0
DirectlyInside == {f \in disk0 : Len(f) = Len(SourcePath) + 1 /\ IsPrefix(SourcePath, f)
                                 /\ Last(f).ext = "csproj"}

\* C11: a source that is a file is the moved project, and its parent the moved
\* directory; a source that is a directory must hold exactly one project file
\* directly inside it, which is the moved project: none and more than one
\* are fatal, with nothing moved, written or staged.
C11_SourceResolution ==
    pc # "resolve_source" =>
       /\ SourceIsFile => old_file = SourcePath /\ old_dir = Parent(SourcePath)
       /\ (SourceIsDir /\ Cardinality(DirectlyInside) = 1)
          => old_dir = SourcePath /\ old_file \in DirectlyInside
       /\ (SourceIsDir /\ Cardinality(DirectlyInside) # 1)
          => /\ pc = "panicked"
             /\ err = (IF DirectlyInside = {} THEN "no csproj" ELSE "more than one csproj")
             /\ ~SourceResolved
             /\ Untouched

\* the directory holds two projects, and one more below it
C11_Witness ==
    /\ pc = "panicked" /\ err = "more than one csproj"
    /\ SourcePath = Repo \o <<D("A")>>
    /\ DirectlyInside = {ProjP, ProjSecond}
    /\ ProjNested \in disk

\* the paths of the tree that lead to a project
Leaves(tree) == {k \in DOMAIN tree : tree[k].kind = "Project"}
\* the names a project's relative path passes through before its last one
NonFinalPrefixes(rel) == {SubSeq(rel, 1, n) : n \in 1..(Len(rel) - 1)}
NextProject == slnProjects[slnTaken + 1]

\* C12: folding a project whose path has a non-final component already bound to
\* a ProjectLeaf is fatal ("project path used as directory"); no node of the
\* tree lies below a ProjectLeaf, and a ProjectLeaf never becomes a Directory.
C12_LeafIsNotADirectory ==
    /\ [](\A k \in Leaves(slnRoot) : \A d \in DOMAIN slnRoot : IsPrefix(k, d) => d = k)
    /\ [][/\ (/\ slnPc = "folding" /\ slnTaken < Len(slnProjects)
              /\ NonFinalPrefixes(RelPath(NextProject)) \cap Leaves(slnRoot) # {})
             => /\ slnPc' = "panicked"
                /\ slnErr' = "project used as directory"
                /\ Leaves(slnRoot') = Leaves(slnRoot)
          /\ \A k \in Leaves(slnRoot) \cap DOMAIN slnRoot' : slnRoot'[k].kind = "Project"]_vars

\* Baz.proj was to go below Bar.proj, which is a project
C12_Witness ==
    /\ slnPc = "panicked" /\ slnErr = "project used as directory"
    /\ slnPath = Repo \o <<F("All", "sln")>>
    /\ <<D("src"), F("Bar", "proj")>> \in Leaves(slnRoot)
    /\ slnProjects[slnTaken].path = Repo \o <<D("src"), F("Bar", "proj"), F("Baz", "proj")>>

\* the moved project's document before the call and after the outbound fixup
MovedBefore == docs0[old_file]
MovedAfter == docs[new_file]
OutboundDone == pc \in {"add_moved", "done"}
Flagged(val) == looks_like_out_of_tree_relative_path(val)
\* what a stored value resolved to from the old directory
OldResolution(val) == SimplifyAbs(old_dir \o SimplifyRel(val.comps))
\* the fixup leaves the value alone: not flagged, rooted, or nothing there
LeftAlone(val) == ~Flagged(val) \/ val.rooted \/ ~Exists(OldResolution(val), disk)

\* C13: the moved project's document is written back and staged only if a
\* stored value was replaced or an identity property inserted; in particular,
\* when every flagged value is left unchanged (rooted, or nothing at its old
\* resolution) and no property is inserted, it is neither written nor staged.
C13_WriteOnlyOnChange ==
    (/\ OutboundDone
     /\ \A i \in 1..Len(MovedBefore.items) : LeftAlone(MovedBefore.items[i].val)
     /\ MovedAfter.groups = MovedBefore.groups)
    => /\ pc = "done"
       /\ new_file \notin written
       /\ new_file \notin staged

\* where in the property groups the properties called name are
Occurrences(groups, name) ==
    UNION {{<<g, i>> : i \in {j \in 1..Len(groups[g]) : groups[g][j].name = name}} :
           g \in 1..Len(groups)}
IdentityNames == {"RootNamespace", "AssemblyName"}

\* C14: the identity backfill inserts each of RootNamespace and AssemblyName
\* exactly when that property is missing: whatever was present before, a
\* project with a property group ends with exactly one of each, and a property
\* that was present stays where and what it was and is not inserted again.
C14_IndependentBackfill ==
    (OutboundDone /\ MovedBefore.groups # <<>>)
    => \A name \in IdentityNames :
          /\ Cardinality(Occurrences(MovedAfter.groups, name)) = 1
          /\ \A o \in Occurrences(MovedBefore.groups, name) :
                /\ o \in Occurrences(MovedAfter.groups, name)
                /\ MovedAfter.groups[o[1]][o[2]] = MovedBefore.groups[o[1]][o[2]]

\* C15: in the moved project's document a stored value that is not flagged, or
\* whose resolution from the old directory does not exist on disk, is left
\* exactly as it was.
C15_OutboundFrame ==
    OutboundDone =>
       /\ Len(MovedAfter.items) = Len(MovedBefore.items)
       /\ \A i \in 1..Len(MovedBefore.items) :
             LET before == MovedBefore.items[i]
             IN (~Flagged(before.val) \/ ~Exists(Resolve(old_dir, before.val), disk))
                => MovedAfter.items[i] = before

\* a flagged value with nothing at its old resolution, which from the new
\* directory would be written differently, is as it was
C15_Witness ==
    /\ pc = "done"
    /\ \E i \in 1..Len(MovedBefore.items) :
          LET before == MovedBefore.items[i]
          IN /\ Flagged(before.val) /\ ~before.val.rooted
             /\ ~Exists(Resolve(old_dir, before.val), disk)
             /\ ToStr(relative_path(new_dir, Resolve(old_dir, before.val))) # before.val
             /\ MovedAfter.items[i] = before

\* `git add` was run on q
AddRun(q) == \E n \in 1..Len(gitLog) : gitLog[n].cmd = "add" /\ gitLog[n].from = q
Referencing(q) == \E i \in 1..Len(docs0[q].items) : ReferencedMoved(q, i)

\* C16: once the inbound fixup is through, in every discovered project other
\* than the moved one an element that did not refer to the old project file
\* is as it was; the project's file is written back and staged if and only if
\* one of its references was rewritten; the inbound fixup neither writes nor
\* stages the old project file.
C16_InboundFrameAndStaging ==
    OutboundDone =>
       /\ \A q \in Others :
             /\ \A i \in 1..Len(docs0[q].items) :
                   ~ReferencedMoved(q, i) => docs[q].items[i] = docs0[q].items[i]
             /\ q \in written <=> Referencing(q)
             /\ q \in staged <=> Referencing(q)
       /\ old_file \notin written \cup staged
       /\ ~AddRun(old_file)

\* the same with "staged" read as "git add was run on it", which the code does
\* exactly for the files it wrote
InboundAddRunWhenRewritten ==
    OutboundDone =>
       /\ \A q \in Others :
             /\ \A i \in 1..Len(docs0[q].items) :
                   ~ReferencedMoved(q, i) => docs[q].items[i] = docs0[q].items[i]
             /\ q \in written <=> Referencing(q)
             /\ AddRun(q) <=> Referencing(q)
             /\ q \in staged => Referencing(q)
       /\ old_file \notin written \cup staged
       /\ ~AddRun(old_file)

\* P's i-th element was, before the call, a relative ProjectReference to the
\* existing file of another discovered project
ReferencedOther(i) ==
    LET before == MovedBefore.items[i]
    IN /\ before.name = "ProjectReference"
       /\ ~before.val.rooted
       /\ Resolve(old_dir, before.val) \in Others \cap disk0

\* C17: after a successful move, every relative ProjectReference of the moved
\* project that resolved, from its old directory, to the existing file of
\* another discovered project resolves from its new directory to that file.
C17_OutboundReferencesSurvive ==
    pc = "done" =>
       \A i \in 1..Len(MovedBefore.items) :
          ReferencedOther(i)
          => Resolve(new_dir, MovedAfter.items[i].val) = Resolve(old_dir, MovedBefore.items[i].val)

\* P went one directory deeper and its reference to Q has another string now
C17_Witness ==
    /\ pc = "done"
    /\ Len(new_dir) > Len(old_dir)
    /\ \E i \in 1..Len(MovedBefore.items) :
          /\ ReferencedOther(i)
          /\ Resolve(old_dir, MovedBefore.items[i].val) = ProjQ
          /\ MovedAfter.items[i].val # MovedBefore.items[i].val
          /\ Resolve(new_dir, MovedBefore.items[i].val) # ProjQ

\* the input of create_solution: pairwise distinct paths, all of them under
\* the solution directory
DistinctPaths ==
    \A i, j \in 1..Len(slnProjects) : slnProjects[i].path = slnProjects[j].path => i = j
AllUnderSlnDir ==
    \A j \in 1..Len(slnProjects) : ParentDir \notin Range(RelPath(slnProjects[j]))
\* every project has its leaf, there are no other leaves, no directory is bare
TreeComplete ==
    /\ \A j \in 1..Len(slnProjects) :
          /\ RelPath(slnProjects[j]) \in DOMAIN slnRoot
          /\ slnRoot[RelPath(slnProjects[j])] = ProjectLeaf(slnProjects[j].project_guid)
    /\ Cardinality(Leaves(slnRoot)) = Len(slnProjects)
    /\ \A k \in DOMAIN slnRoot :
          (slnRoot[k].kind = "Directory" /\ (k # <<>> \/ slnProjects # <<>>))
          => \E l \in Leaves(slnRoot) : IsPrefix(k, l)
\* a project's path runs through the path of another project of the input
PathThroughProject ==
    \E i, j \in 1..Len(slnProjects) :
        RelPath(slnProjects[i]) \in NonFinalPrefixes(RelPath(slnProjects[j]))

\* C18: for projects with pairwise distinct paths under the solution directory,
\* in whatever order, a tree that create_solution returns holds exactly one
\* ProjectLeaf per project, at the project's relative path and with its guid,
\* and every Directory of it has a ProjectLeaf below it: no project is dropped.
C18_TreeComplete ==
    (slnPc = "returned" /\ DistinctPaths /\ AllUnderSlnDir) => TreeComplete

\* the tree is complete when no path of the input runs through another one
TreeCompleteWithoutCollision ==
    (slnPc = "returned" /\ DistinctPaths /\ AllUnderSlnDir /\ ~PathThroughProject)
    => TreeComplete
\* three projects in two directories, all of them in the tree
TreeCompleteReached ==
    /\ slnPc = "returned" /\ DistinctPaths /\ AllUnderSlnDir /\ ~PathThroughProject
    /\ Len(slnProjects) = MaxProjects
    /\ TreeComplete
====
